---- MODULE Spec2Model ----
(***************************************************************************)
(* A model of src/index.js: the Memphis connection manager (control-plane  *)
(* socket, authentication handshake, token refresh, reconnection), the     *)
(* resource calls factory/station/producer/consumer, and the Consumer and *)
(* Producer sessions.  One Memphis object carries one connection: the     *)
(* application calls connect once, and close at any time.                  *)
(*                                                                         *)
(* Strings that the code inspects (hosts, names) are sequences of tokens:  *)
(* "http://h" is <<"http://", "h">>.  Timers are modelled by their pending *)
(* callbacks; a pending timer may fire at any later step, because every    *)
(* delay (timeoutMs, reconnectIntervalMs, access_token_exp) is an input.   *)
(***************************************************************************)
EXTENDS Integers, Sequences, FiniteSets, TLC

\* ------------------------------------------------------------------ bounds
\* Number of control-plane messages the server sends on one socket.
MaxData == 2
\* Number of resource calls (factory/station/producer/consumer) the
\* application makes.
MaxCalls == 1

\* --------------------------------------------------------- program constants
DefaultPort == 9000
DefaultBrokerPort == 7766
DefaultMaxReconnect == 3
DefaultReconnectIntervalMs == 200
DefaultTimeoutMs == 15000
MaxReconnectCap == 9
\* accessTokenTimeout = null (timer handles are 1, 2, ...)
NoTimer == 0

Null == "null"
\* a parameter that the caller did not pass
Undefined == <<"#undefined">>

VARIABLES
    this,            \* the Memphis object's fields
    client,          \* this.client: the net.Socket and its listeners
    promises,        \* one record per connect() call: its promise and timeout timer
    reconnectTimers, \* pending setTimeout callbacks scheduled by _close
    refreshTimers,   \* pending setTimeout callbacks of _keepAcessTokenFresh
    timersMade,      \* refresh timer handles handed out so far
    server,          \* control plane: requests written on the socket, not yet answered
    log,             \* observable effects: counters of writes, transports, requests
    app,             \* what the application has called so far
    calls,           \* one record per resource call (factory/station/producer/consumer)
    consumer,        \* a Consumer object's fields, its emitter and its listeners
    psub,            \* the transport's side of the consumer's pull subscription
    intervals,       \* handles of the setInterval timers that are running
    received,        \* what each listener of the application has been called with
    clog,            \* observable effects of the consumer session
    producer,        \* a Producer object's fields
    plog             \* observable effects of the producer session

connVars == <<this, client, promises, reconnectTimers, refreshTimers,
              timersMade, server, log, app, calls>>

consVars == <<consumer, psub, intervals, received, clog>>

prodVars == <<producer, plog>>

vars == <<connVars, consVars, prodVars>>

\* ------------------------------------------------------------------ strings
StartsWith(s, tok) == Len(s) > 0 /\ s[1] = tok

\* s.split(tok)[1] for a string s that starts with tok: the text between the
\* first occurrence of tok and the next one (or the end).
RECURSIVE UpTo(_, _)
UpTo(s, tok) ==
    IF s = <<>> \/ s[1] = tok THEN <<>>
    ELSE <<s[1]>> \o UpTo(Tail(s), tok)

SplitSecond(s, tok) == UpTo(Tail(s), tok)

\* _normalizeHost(host); callers test for Undefined first (host.startsWith throws)
NormalizeHost(host) ==
    IF StartsWith(host, "http://") THEN SplitSecond(host, "http://")
    ELSE IF StartsWith(host, "https://") THEN SplitSecond(host, "https://")
    ELSE host

\* ------------------------------------------------------------------- inputs
Hosts == {<<"h">>, <<"http://", "h">>}
BrokerHosts == {<<"https://", "b">>}
Ports == {DefaultPort}
BrokerPorts == {7767}
MaxReconnects == {0, DefaultMaxReconnect, 10}

ConnectArgs ==
    [host : Hosts, port : Ports, username : {"u"}, brokerHost : BrokerHosts,
     brokerPort : BrokerPorts, connectionToken : {"ct"}, reconnect : BOOLEAN,
     maxReconnect : MaxReconnects,
     reconnectIntervalMs : {DefaultReconnectIntervalMs},
     timeoutMs : {DefaultTimeoutMs}]

\* ---------------------------------------------------------------- constructor
MemphisNew ==
    [isConnectionActive |-> FALSE, connectionId |-> Null, accessToken |-> Null,
     host |-> <<"null">>, port |-> DefaultPort, username |-> Null,
     brokerHost |-> <<"null">>, brokerPort |-> DefaultBrokerPort,
     connectionToken |-> Null, accessTokenTimeout |-> NoTimer,
     reconnectAttempts |-> 0, reconnect |-> TRUE,
     maxReconnect |-> DefaultMaxReconnect,
     reconnectIntervalMs |-> DefaultReconnectIntervalMs,
     timeoutMs |-> DefaultTimeoutMs, brokerConnection |-> Null]

\* new net.Socket() with the constructor's 'error' and 'close' listeners
SocketNew ==
    [state |-> "idle", destroyed |-> FALSE, errorListener |-> TRUE,
     closeListener |-> TRUE, connectListeners |-> <<>>, dataListeners |-> <<>>]

\* -------------------------------------------------------------------- connect
NewPromise(args, origin) ==
    [origin |-> origin, args |-> args, state |-> "pending", error |-> "none",
     timer |-> "pending", authSeen |-> FALSE, transportOpened |-> FALSE,
     awaiting |-> 0]

\* resolve()/reject() of a promise: only the first settlement counts
Settle(p, state, error) ==
    IF p.state = "pending" THEN [p EXCEPT !.state = state, !.error = error]
    ELSE p

\* this.maxReconnect = maxReconnect > 9 ? 9 : maxReconnect
CapMaxReconnect(n) == IF n > MaxReconnectCap THEN MaxReconnectCap ELSE n

\* The promise executor of connect().  A throw inside the executor rejects the
\* promise and skips the assignments that follow it.
connect(args, origin) ==
    LET n == Len(promises) + 1
        p == NewPromise(args, origin)
    IN  IF args.host = Undefined THEN
            /\ promises' = Append(promises, Settle(p, "rejected", "TypeError"))
            /\ UNCHANGED <<this, client>>
            /\ log' = log
        ELSE IF args.brokerHost = Undefined THEN
            /\ promises' = Append(promises, Settle(p, "rejected", "TypeError"))
            /\ this' = [this EXCEPT !.host = NormalizeHost(args.host) \o <<"/tcp">>]
            /\ client' = client
            /\ log' = log
        ELSE
            /\ promises' = Append(promises, p)
            /\ this' = [this EXCEPT
                   !.host = NormalizeHost(args.host) \o <<"/tcp">>,
                   !.brokerHost = NormalizeHost(args.brokerHost),
                   !.port = args.port,
                   !.brokerPort = args.brokerPort,
                   !.username = args.username,
                   !.connectionToken = args.connectionToken,
                   !.reconnect = args.reconnect,
                   !.maxReconnect = CapMaxReconnect(args.maxReconnect),
                   !.reconnectIntervalMs = args.reconnectIntervalMs,
                   !.timeoutMs = args.timeoutMs]
            /\ client' = [client EXCEPT !.state = "connecting",
                                        !.destroyed = FALSE,
                                        !.connectListeners = Append(@, n)]
            /\ log' = [log EXCEPT !.connectAttempts = @ + 1]

\* The application calls connect(config) on a new Memphis object.
AppConnect ==
    /\ ~app.connected /\ ~app.closed
    /\ \E args \in ConnectArgs :
          /\ connect(args, "app")
          /\ app' = [app EXCEPT !.connected = TRUE]
    /\ UNCHANGED <<reconnectTimers, refreshTimers, timersMade, server, calls>>
    /\ UNCHANGED <<consVars, prodVars>>

\* The socket's 'connect' event: every callback given to client.connect writes
\* the authentication payload and registers its 'data' listener.
SocketConnected ==
    /\ client.state = "connecting"
    /\ client' = [client EXCEPT !.state = "open", !.connectListeners = <<>>,
                                !.dataListeners = @ \o client.connectListeners]
    /\ server' = [server EXCEPT !.auth = @ + Len(client.connectListeners)]
    /\ log' = [log EXCEPT !.authWrites = @ + Len(client.connectListeners)]
    /\ UNCHANGED <<this, promises, reconnectTimers, refreshTimers, timersMade,
                   app, calls>>
    /\ UNCHANGED <<consVars, prodVars>>

\* ------------------------------------------------------------ close / _close
RemoveAllListeners(c) ==
    [c EXCEPT !.dataListeners = <<>>, !.errorListener = FALSE,
              !.closeListener = FALSE]

\* client.destroy(): the socket is closed at once, nothing more is received
Destroy(c) == [c EXCEPT !.state = "idle", !.destroyed = TRUE]

\* The else branch of _close: the connection is cleaned up.
CleanUp(t) ==
    [t EXCEPT !.accessToken = Null, !.connectionId = Null,
              !.isConnectionActive = FALSE, !.accessTokenTimeout = NoTimer,
              !.reconnectAttempts = 0]

\* a _close that does not compare the counter with maxReconnect
ReconnectUnbounded(t) == t.reconnect

\* a _close that does not look at the reconnect flag
ReconnectIgnoresFlag(t) == t.reconnectAttempts < t.maxReconnect

\* Whether _close schedules a reconnect
ShouldReconnect(t) == t.reconnect /\ t.reconnectAttempts < t.maxReconnect

\* _close(): the fields, socket and timers it leaves
_close(t, c, rts, fts) ==
    IF ShouldReconnect(t) THEN
        [this |-> [t EXCEPT !.reconnectAttempts = @ + 1], client |-> c,
         reconnectTimers |-> rts + 1, refreshTimers |-> fts, cleaned |-> 0]
    ELSE
        [this |-> CleanUp(t), client |-> Destroy(RemoveAllListeners(c)),
         reconnectTimers |-> rts,
         refreshTimers |-> fts \ {t.accessTokenTimeout}, cleaned |-> 1]

\* a close() without clearTimeout(this.accessTokenTimeout)
closeKeepsTimer(t, c, fts) ==
    [this |-> [t EXCEPT !.accessToken = Null, !.connectionId = Null,
                        !.isConnectionActive = FALSE,
                        !.accessTokenTimeout = NoTimer,
                        !.reconnectAttempts = 0],
     client |-> Destroy(RemoveAllListeners(c)),
     refreshTimers |-> fts]

\* a close() that leaves the attempt counter as it is
closeKeepsCounter(t, c, fts) ==
    [this |-> [t EXCEPT !.accessToken = Null, !.connectionId = Null,
                        !.isConnectionActive = FALSE,
                        !.accessTokenTimeout = NoTimer],
     client |-> Destroy(RemoveAllListeners(c)),
     refreshTimers |-> fts \ {t.accessTokenTimeout}]

\* close(): the fields, socket and timers it leaves
close(t, c, fts) ==
    [this |-> [t EXCEPT !.accessToken = Null, !.connectionId = Null,
                        !.isConnectionActive = FALSE,
                        !.accessTokenTimeout = NoTimer,
                        !.reconnectAttempts = 0],
     client |-> Destroy(RemoveAllListeners(c)),
     refreshTimers |-> fts \ {t.accessTokenTimeout}]

\* The socket's 'close' event (a failed connect, or an established connection
\* that is lost): the constructor's listener marks the connection inactive and
\* calls _close.
SocketClose ==
    /\ client.state \in {"connecting", "open"}
    /\ server' = [server EXCEPT !.auth = 0, !.refresh = 0]
    /\ IF client.closeListener THEN
          LET r == _close([this EXCEPT !.isConnectionActive = FALSE],
                          [client EXCEPT !.state = "idle"],
                          reconnectTimers, refreshTimers)
          IN  /\ this' = r.this
              /\ client' = r.client
              /\ reconnectTimers' = r.reconnectTimers
              /\ refreshTimers' = r.refreshTimers
              /\ log' = [log EXCEPT !.closes = @ + 1,
                                    !.cleanups = @ + r.cleaned]
       ELSE
          /\ client' = [client EXCEPT !.state = "idle"]
          /\ log' = [log EXCEPT !.closes = @ + 1]
          /\ UNCHANGED <<this, reconnectTimers, refreshTimers>>
    /\ UNCHANGED <<promises, timersMade, app, calls>>
    /\ UNCHANGED <<consVars, prodVars>>

\* The application calls close().
AppClose ==
    /\ LET r == close(this, client, refreshTimers)
       IN  /\ this' = r.this
           /\ client' = r.client
           /\ refreshTimers' = r.refreshTimers
    /\ server' = [server EXCEPT !.auth = 0, !.refresh = 0]
    /\ app' = [app EXCEPT !.closed = TRUE]
    /\ UNCHANGED <<promises, reconnectTimers, timersMade, log, calls>>
    /\ UNCHANGED <<consVars, prodVars>>

\* The arguments of the connect call in _close's timer callback: brokerHost and
\* brokerPort are not passed, so brokerPort takes its default.
ReconnectArgs(t) ==
    [host |-> t.host, port |-> t.port, username |-> t.username,
     brokerHost |-> Undefined, brokerPort |-> DefaultBrokerPort,
     connectionToken |-> t.connectionToken, reconnect |-> t.reconnect,
     maxReconnect |-> t.maxReconnect,
     reconnectIntervalMs |-> t.reconnectIntervalMs, timeoutMs |-> t.timeoutMs]

\* The timer set by _close fires: connect is called again.
ReconnectTimerFires ==
    /\ reconnectTimers > 0
    /\ reconnectTimers' = reconnectTimers - 1
    /\ connect(ReconnectArgs(this), "reconnect")
    /\ UNCHANGED <<refreshTimers, timersMade, server, app, calls>>
    /\ UNCHANGED <<consVars, prodVars>>

\* ---------------------------------------------------------------- 'data' event
\* The synchronous part of one 'data' listener, up to its await of
\* broker.connect: the fields it leaves when its refresh timer has handle id.
OnData(t, id) ==
    [t EXCEPT !.connectionId = "cid", !.accessToken = "tok",
              !.accessTokenTimeout = id, !.isConnectionActive = TRUE,
              !.reconnectAttempts = 0]

\* a handler that resolves before it awaits broker.connect
HandlerResolvesEarly(p) ==
    Settle([p EXCEPT !.authSeen = TRUE, !.awaiting = @ + 1], "resolved", "none")

\* What one 'data' listener does to the promise of its connect call before
\* its await: the response is handled and broker.connect is under way.
HandlerAwaits(p) == [p EXCEPT !.authSeen = TRUE, !.awaiting = @ + 1]

\* All registered 'data' listeners run, in registration order.
RECURSIVE RunDataListeners(_, _, _, _, _)
RunDataListeners(ls, t, fts, made, ps) ==
    IF ls = <<>> THEN
        [this |-> t, refreshTimers |-> fts, timersMade |-> made, promises |-> ps]
    ELSE
        LET p == Head(ls)
        IN  RunDataListeners(Tail(ls), OnData(t, made + 1),
                fts \cup {made + 1}, made + 1,
                [ps EXCEPT ![p] = HandlerAwaits(@)])

\* The control plane answers a request (the authentication payload, or a token
\* refresh request) and the socket emits 'data'.
ServerData ==
    /\ client.state = "open"
    /\ server.sent < MaxData
    /\ \E kind \in {"auth", "refresh"} :
          /\ server[kind] > 0
          /\ server' = [server EXCEPT ![kind] = @ - 1, !.sent = @ + 1]
          /\ log' = [log EXCEPT !.handshakes =
                         IF kind = "auth" THEN @ + 1 ELSE @]
    /\ LET r == RunDataListeners(client.dataListeners, this, refreshTimers,
                                 timersMade, promises)
       IN  /\ this' = r.this
           /\ refreshTimers' = r.refreshTimers
           /\ timersMade' = r.timersMade
           /\ promises' = r.promises
    /\ UNCHANGED <<client, reconnectTimers, app, calls>>
    /\ UNCHANGED <<consVars, prodVars>>

\* await broker.connect(...) returns: brokerConnection is set and the promise
\* of the connect call that registered the listener is resolved.
BrokerConnected ==
    \E p \in DOMAIN promises :
       /\ promises[p].awaiting > 0
       /\ this' = [this EXCEPT !.brokerConnection = "jetstream"]
       /\ promises' = [promises EXCEPT
              ![p] = [Settle(@, "resolved", "none") EXCEPT
                         !.awaiting = @ - 1, !.transportOpened = TRUE]]
       /\ log' = [log EXCEPT !.transports = @ + 1]
       /\ UNCHANGED <<client, reconnectTimers, refreshTimers, timersMade,
                      server, app, calls>>
    /\ UNCHANGED <<consVars, prodVars>>

\* await broker.connect(...) throws: the promise is rejected with the error.
BrokerFailed ==
    \E p \in DOMAIN promises :
       /\ promises[p].awaiting > 0
       /\ promises' = [promises EXCEPT
              ![p] = [Settle(@, "rejected", "TransportError") EXCEPT
                         !.awaiting = @ - 1]]
       /\ UNCHANGED <<this, client, reconnectTimers, refreshTimers, timersMade,
                      server, log, app, calls>>
    /\ UNCHANGED <<consVars, prodVars>>

\* -------------------------------------------------------------------- timers
\* a timeout callback that only looks at the reconnect policy
TimeoutIgnoresActive(args, t) ==
    \/ ~args.reconnect
    \/ t.reconnectAttempts = args.maxReconnect

\* The condition under which connect's timeout callback rejects; reconnect and
\* maxReconnect are the parameters of that connect call.
TimeoutRejects(args, t) ==
    \/ ~args.reconnect
    \/ t.reconnectAttempts = args.maxReconnect
    \/ ~t.isConnectionActive

\* The timeoutMs timer of a connect call fires.
TimeoutFires ==
    \E p \in DOMAIN promises :
       /\ promises[p].timer = "pending"
       /\ promises' = [promises EXCEPT
              ![p] = [(IF TimeoutRejects(@.args, this)
                       THEN Settle(@, "rejected", "ConnectionTimeout")
                       ELSE @) EXCEPT !.timer = "fired"]]
       /\ UNCHANGED <<this, client, reconnectTimers, refreshTimers, timersMade,
                      server, log, app, calls>>
    /\ UNCHANGED <<consVars, prodVars>>

\* a refresh callback that writes without looking at isConnectionActive
RefreshAlways(t) == TRUE

\* Whether the refresh timer's callback writes the refresh request
RefreshWrites(t) == t.isConnectionActive

\* A timer set by _keepAcessTokenFresh fires.
RefreshTimerFires ==
    \E id \in refreshTimers :
       /\ refreshTimers' = refreshTimers \ {id}
       /\ IF RefreshWrites(this) THEN
             /\ log' = [log EXCEPT !.refreshWrites = @ + 1]
             /\ server' = IF client.state = "open"
                          THEN [server EXCEPT !.refresh = @ + 1]
                          ELSE server
          ELSE UNCHANGED <<log, server>>
       /\ UNCHANGED <<this, client, promises, reconnectTimers, timersMade,
                      app, calls>>
    /\ UNCHANGED <<consVars, prodVars>>

\* ------------------------------------------------------------ resource calls
Ops == {"factory", "station", "producer", "consumer"}

\* a station() without the check
StationUnchecked(op, t) == op # "station" /\ ~t.isConnectionActive

\* if (!this.isConnectionActive) throw new Error("Connection is dead")
ConnectionIsDead(op, t) == ~t.isConnectionActive

\* The members of the Memphis object that a session constructor may call
MemphisMethods ==
    {"connect", "_normalizeHost", "_keepAcessTokenFresh", "factory", "station",
     "producer", "consumer", "_close", "close"}

\* What `new Session(this, ...)` gives after the control plane's answer: the
\* Consumer constructor calls this.connection.pullSubscribe, the others call
\* nothing.
Construct(op) ==
    IF op = "consumer" /\ "pullSubscribe" \notin MemphisMethods
    THEN [state |-> "rejected", error |-> "TypeError"]
    ELSE [state |-> "session", error |-> "none"]

\* The application calls factory(), station(), producer() or consumer().
ApiCall ==
    /\ app.calls < MaxCalls
    /\ app' = [app EXCEPT !.calls = @ + 1]
    /\ \E op \in Ops :
          IF ConnectionIsDead(op, this) THEN
              /\ calls' = Append(calls, [op |-> op, state |-> "rejected",
                                         error |-> "ConnectionInactive"])
              /\ log' = log
          ELSE
              /\ calls' = Append(calls, [op |-> op, state |-> "http",
                                         error |-> "none"])
              /\ log' = [log EXCEPT !.http = @ + 1]
    /\ UNCHANGED <<this, client, promises, reconnectTimers, refreshTimers,
                   timersMade, server>>
    /\ UNCHANGED <<consVars, prodVars>>

\* The control plane answers the HTTP request of a resource call.
HttpResponds ==
    \E i \in DOMAIN calls :
       /\ calls[i].state = "http"
       /\ \E ok \in BOOLEAN :
             calls' = [calls EXCEPT ![i] =
                 IF ok THEN [op |-> @.op] @@ Construct(@.op)
                 ELSE [@ EXCEPT !.state = "rejected",
                                !.error = "ControlPlaneError"]]
       /\ UNCHANGED <<this, client, promises, reconnectTimers, refreshTimers,
                      timersMade, server, log, app>>
    /\ UNCHANGED <<consVars, prodVars>>

\* ------------------------------------------------------------ Consumer session
\* Number of messages the transport delivers on the subscription.
MaxMsgs == 2
\* Number of pull requests a consumer session issues.
MaxPulls == 2

\* The application's listener functions
Listeners == {"f", "g"}

\* String.prototype.toLowerCase, token by token
LowerToken(tok) ==
    CASE tok = "ST" -> "st"
      [] tok = "Con" -> "con"
      [] tok = "Grp" -> "grp"
      [] tok = "Prod" -> "prod"
      [] OTHER -> tok

ToLowerCase(s) == [i \in DOMAIN s |-> LowerToken(s[i])]

ConsumerArgs ==
    [stationName : {<<"ST">>}, consumerName : {<<"Con">>},
     consumerGroup : {<<>>, <<"Grp">>}, pullIntervalMs : {1000},
     batchSize : {1, 2}, batchMaxTimeToWaitMs : {5000}]

\* The events a consumer emits
Events == {"message", "error"}

NoListeners == [message |-> {}, error |-> {}]

\* new Consumer(connection, ...) up to the call of connection.pullSubscribe:
\* eventEmitter is a new emitter, and on is EventEmitter.prototype.on, which
\* adds the listener to the object it is called on, the consumer itself.
ConsumerNew(a) ==
    [stationName |-> ToLowerCase(a.stationName),
     consumerName |-> ToLowerCase(a.consumerName),
     consumerGroup |-> ToLowerCase(a.consumerGroup),
     pullIntervalMs |-> a.pullIntervalMs, batchSize |-> a.batchSize,
     batchMaxTimeToWaitMs |-> a.batchMaxTimeToWaitMs,
     pullInterval |-> NoTimer,
     eventEmitter |-> NoListeners,
     events |-> NoListeners,
     destroy |-> "none"]

\* durable_name: this.consumerGroup ? this.consumerGroup : this.consumerName
DurableName(c) == IF c.consumerGroup # <<>> THEN c.consumerGroup ELSE c.consumerName

\* connection.pullSubscribe(subject, options) has been called and is pending
Subscribing(c) ==
    [state |-> "subscribing", subject |-> c.stationName \o <<".final">>,
     durable |-> DurableName(c), credit |-> 0, pulls |-> 0,
     requests |-> <<>>, delivered |-> <<>>, inbox |-> <<>>]

\* No consumer has been constructed.
NoConsumer ==
    [ConsumerNew([stationName |-> <<>>, consumerName |-> <<>>,
                  consumerGroup |-> <<>>, pullIntervalMs |-> 0,
                  batchSize |-> 0, batchMaxTimeToWaitMs |-> 0])
        EXCEPT !.destroy = "absent"]

ConsumerLogNew ==
    [emitted |-> <<>>, emitsAfterDestroy |-> 0, pullsAfterDestroy |-> 0,
     deliveriesAfterDestroy |-> 0, ticks |-> 0,
     errorEvents |-> 0, errorsTo |-> <<>>, unhandled |-> 0, http |-> <<>>,
     registeredAt |-> <<>>]

\* the request of psub.pull({ batch: this.batchSize, expires: this.batchMaxTimeToWaitMs })
PullRequest(c) == [batch |-> c.batchSize, expires |-> c.batchMaxTimeToWaitMs]

\* a callback that pulls twice
PullTwice(s, c) ==
    [s EXCEPT !.credit = @ + 2 * c.batchSize, !.pulls = @ + 2,
              !.requests = @ \o <<PullRequest(c), PullRequest(c)>>]

\* psub.pull({batch, expires}): the transport may deliver batch more messages
Pull(s, c) ==
    [s EXCEPT !.credit = @ + c.batchSize, !.pulls = @ + 1,
              !.requests = Append(@, PullRequest(c))]

\* consumer.on(event, f): EventEmitter.prototype.on with the consumer as this
On(c, event, f) == [c EXCEPT !.events[event] = @ \cup {f}]

\* consumer.eventEmitter.on(event, f)
EmitterOn(c, event, f) == [c EXCEPT !.eventEmitter[event] = @ \cup {f}]

\* The listeners that this.eventEmitter.emit(event, ...) calls
Emit(c, event) == c.eventEmitter[event]

Destroyed == consumer.destroy \in {"http", "done", "failed"}

\* The listeners the application has registered, by either way
Registered(c) ==
    UNION {c.events[e] \cup c.eventEmitter[e] : e \in Events}

\* The application registers a listener with consumer.on.
AppOn ==
    /\ consumer.destroy = "none"
    /\ \E f \in Listeners, event \in Events :
          /\ f \notin Registered(consumer)
          /\ consumer' = On(consumer, event, f)
          /\ clog' = [clog EXCEPT !.registeredAt =
                          @ \o <<[f |-> f, event |-> event, via |-> "on",
                                  at |-> Len(clog.emitted),
                                  state |-> psub.state]>>]
    /\ UNCHANGED <<psub, intervals, received>>
    /\ UNCHANGED <<connVars, prodVars>>

\* The application registers a listener on consumer.eventEmitter.
AppEmitterOn ==
    /\ consumer.destroy = "none"
    /\ \E f \in Listeners, event \in Events :
          /\ f \notin Registered(consumer)
          /\ consumer' = EmitterOn(consumer, event, f)
          /\ clog' = [clog EXCEPT !.registeredAt =
                          @ \o <<[f |-> f, event |-> event, via |-> "emitter",
                                  at |-> Len(clog.emitted),
                                  state |-> psub.state]>>]
    /\ UNCHANGED <<psub, intervals, received>>
    /\ UNCHANGED <<connVars, prodVars>>

\* pullSubscribe resolves: the first pull is issued and the interval is set.
Subscribed ==
    /\ psub.state = "subscribing"
    /\ psub' = [Pull(psub, consumer) EXCEPT !.state = "established"]
    /\ consumer' = [consumer EXCEPT !.pullInterval = 1]
    /\ intervals' = intervals \cup {1}
    /\ clog' = [clog EXCEPT !.pullsAfterDestroy =
                    IF Destroyed THEN @ + 1 ELSE @]
    /\ UNCHANGED received
    /\ UNCHANGED <<connVars, prodVars>>

\* pullSubscribe rejects: the catch handler emits 'error'; emit throws when
\* 'error' has no listener.
SubscribeFails ==
    /\ psub.state = "subscribing"
    /\ psub' = [psub EXCEPT !.state = "failed"]
    /\ clog' = IF Emit(consumer, "error") = {}
               THEN [clog EXCEPT !.unhandled = @ + 1]
               ELSE [clog EXCEPT !.errorEvents = @ + 1,
                                 !.errorsTo = Append(@, Emit(consumer, "error"))]
    /\ UNCHANGED <<consumer, intervals, received>>
    /\ UNCHANGED <<connVars, prodVars>>

\* The setInterval callback runs: one more pull.
IntervalFires ==
    /\ intervals # {}
    /\ psub.state = "established"
    /\ psub.pulls < MaxPulls
    /\ psub' = Pull(psub, consumer)
    /\ clog' = [clog EXCEPT !.ticks = @ + 1,
                            !.pullsAfterDestroy =
                                IF Destroyed THEN @ + 1 ELSE @]
    /\ UNCHANGED <<consumer, intervals, received>>
    /\ UNCHANGED <<connVars, prodVars>>

\* The transport delivers the next message of the station for a pull that is
\* outstanding.
TransportDelivers ==
    /\ psub.state = "established"
    /\ psub.credit > 0
    /\ Len(psub.delivered) < MaxMsgs
    /\ LET m == Len(psub.delivered) + 1
       IN  psub' = [psub EXCEPT !.credit = @ - 1,
                                !.delivered = Append(@, m),
                                !.inbox = Append(@, m)]
    /\ clog' = [clog EXCEPT !.deliveriesAfterDestroy =
                    IF Destroyed THEN @ + 1 ELSE @]
    /\ UNCHANGED <<consumer, intervals, received>>
    /\ UNCHANGED <<connVars, prodVars>>

\* One turn of `for await (const m of psub)`: the message is emitted.
LoopEmits ==
    /\ psub.state = "established"
    /\ psub.inbox # <<>>
    /\ LET m == Head(psub.inbox)
       IN  /\ psub' = [psub EXCEPT !.inbox = Tail(@)]
           /\ received' = [f \in Listeners |->
                 IF f \in Emit(consumer, "message")
                 THEN Append(received[f], m) ELSE received[f]]
           /\ clog' = [clog EXCEPT !.emitted = Append(@, m),
                          !.emitsAfterDestroy =
                              IF consumer.destroy \in {"done", "failed"}
                              THEN @ + 1 ELSE @]
    /\ UNCHANGED <<consumer, intervals>>
    /\ UNCHANGED <<connVars, prodVars>>

\* a destroy() that leaves the 'message' listeners on the emitter
destroyKeepsListeners(c) ==
    [c EXCEPT !.eventEmitter.error = {}, !.destroy = "http"]

\* destroy() up to its await: the emitter's listeners are removed
destroy(c) == [c EXCEPT !.eventEmitter = NoListeners, !.destroy = "http"]

\* The application calls destroy() on the consumer.
ConsumerDestroy ==
    /\ consumer.destroy = "none"
    /\ consumer' = destroy(consumer)
    /\ intervals' = intervals \ {consumer.pullInterval}
    /\ clog' = [clog EXCEPT !.http = Append(@,
                    [url |-> this.host \o <<"/api/consumers/destroyConsumer">>,
                     token |-> this.accessToken,
                     name |-> consumer.consumerName,
                     station_name |-> consumer.stationName])]
    /\ UNCHANGED <<psub, received>>
    /\ UNCHANGED <<connVars, prodVars>>

\* The control plane answers the destroyConsumer request: destroy() returns
\* or throws.
DestroyResponds ==
    /\ consumer.destroy = "http"
    /\ \E ok \in BOOLEAN :
          consumer' = [consumer EXCEPT !.destroy = IF ok THEN "done" ELSE "failed"]
    /\ UNCHANGED <<psub, intervals, received, clog>>
    /\ UNCHANGED <<connVars, prodVars>>

\* ------------------------------------------------------------ Producer session
\* Number of produce() calls and of destroy() calls made on a producer.
MaxProducerCalls == 2

ProducerArgs ==
    [stationName : {<<"ST">>, <<"st">>},
     producerName : {<<"Prod">>, <<"prod">>, <<"p2">>}]

\* new Producer(connection, producerName, stationName); the connection is this
ProducerNew(a) ==
    [producerName |-> ToLowerCase(a.producerName),
     stationName |-> ToLowerCase(a.stationName)]

\* No producer has been constructed.
NoProducer == [producerName |-> <<>>, stationName |-> <<>>]

\* obj[name] in JavaScript: undefined when the object has no such property
Field(obj, name) == IF name \in DOMAIN obj THEN obj[name] ELSE Undefined

\* The request destroy() sends:
\* bodyParams { name: this.consumerName, station_name: this.stationName }
DestroyProducerRequest(p, connection) ==
    [url |-> <<"http://">> \o connection.host
                \o <<"/api/producers/destroyProducer">>,
     token |-> connection.accessToken,
     name |-> Field(p, "consumerName"),
     station_name |-> Field(p, "stationName")]

ProducerLogNew(a) == [args |-> a, http |-> <<>>, published |-> <<>>]

\* The application calls produce(): connection.publish on <station>.final.
ProducerProduce ==
    /\ Len(plog.published) < MaxProducerCalls
    /\ plog' = [plog EXCEPT !.published =
                    Append(@, producer.stationName \o <<".final">>)]
    /\ UNCHANGED producer
    /\ UNCHANGED <<connVars, consVars>>

\* The application calls destroy() on the producer: the request is sent.
ProducerDestroy ==
    /\ Len(plog.http) < MaxProducerCalls
    /\ plog' = [plog EXCEPT !.http = Append(@,
                    [request |-> DestroyProducerRequest(producer, this),
                     state |-> "pending"])]
    /\ UNCHANGED producer
    /\ UNCHANGED <<connVars, consVars>>

\* The control plane answers a destroyProducer request: destroy() returns or
\* throws.
ProducerDestroyResponds ==
    /\ \E i \in DOMAIN plog.http, ok \in BOOLEAN :
          /\ plog.http[i].state = "pending"
          /\ plog' = [plog EXCEPT !.http[i].state =
                          IF ok THEN "done" ELSE "failed"]
    /\ UNCHANGED producer
    /\ UNCHANGED <<connVars, consVars>>

\* --------------------------------------------------------------- specification
ConnRest ==
    /\ client = SocketNew
    /\ promises = <<>>
    /\ reconnectTimers = 0
    /\ refreshTimers = {}
    /\ timersMade = 0
    /\ server = [auth |-> 0, refresh |-> 0, sent |-> 0]
    /\ log = [authWrites |-> 0, refreshWrites |-> 0, transports |-> 0,
              handshakes |-> 0, http |-> 0, closes |-> 0, cleanups |-> 0,
              connectAttempts |-> 0]
    /\ app = [connected |-> FALSE, closed |-> FALSE, calls |-> 0]
    /\ calls = <<>>

Init ==
    /\ this = MemphisNew
    /\ ConnRest
    /\ consumer = NoConsumer
    /\ psub = [Subscribing(NoConsumer) EXCEPT !.state = "absent"]
    /\ intervals = {}
    /\ received = [f \in Listeners |-> <<>>]
    /\ clog = ConsumerLogNew
    /\ producer = NoProducer
    /\ plog = ProducerLogNew(NoProducer)

Next ==
    \/ AppConnect
    \/ SocketConnected
    \/ SocketClose
    \/ AppClose
    \/ ReconnectTimerFires
    \/ ServerData
    \/ BrokerConnected
    \/ BrokerFailed
    \/ TimeoutFires
    \/ RefreshTimerFires
    \/ ApiCall
    \/ HttpResponds

Spec == Init /\ [][Next]_vars

\* A Consumer constructed with a connection whose pullSubscribe is the
\* transport's: the connection is active and the subscription is pending.
ActiveConnection ==
    [OnData(MemphisNew, 1) EXCEPT !.host = <<"h", "/tcp">>,
                                  !.brokerHost = <<"b">>,
                                  !.username = "u", !.connectionToken = "ct",
                                  !.brokerConnection = "jetstream"]

InitConsumer ==
    /\ this = ActiveConnection
    /\ ConnRest
    /\ \E a \in ConsumerArgs :
          /\ consumer = ConsumerNew(a)
          /\ psub = Subscribing(ConsumerNew(a))
    /\ intervals = {}
    /\ received = [f \in Listeners |-> <<>>]
    /\ clog = ConsumerLogNew
    /\ producer = NoProducer
    /\ plog = ProducerLogNew(NoProducer)

NextConsumer ==
    \/ AppOn
    \/ AppEmitterOn
    \/ Subscribed
    \/ SubscribeFails
    \/ IntervalFires
    \/ TransportDelivers
    \/ LoopEmits
    \/ ConsumerDestroy
    \/ DestroyResponds

SpecConsumer == InitConsumer /\ [][NextConsumer]_vars

\* A Producer constructed with an active connection.
InitProducer ==
    /\ this = ActiveConnection
    /\ ConnRest
    /\ consumer = NoConsumer
    /\ psub = [Subscribing(NoConsumer) EXCEPT !.state = "absent"]
    /\ intervals = {}
    /\ received = [f \in Listeners |-> <<>>]
    /\ clog = ConsumerLogNew
    /\ \E a \in ProducerArgs :
          /\ producer = ProducerNew(a)
          /\ plog = ProducerLogNew(a)

NextProducer ==
    \/ ProducerProduce
    \/ ProducerDestroy
    \/ ProducerDestroyResponds

SpecProducer == InitProducer /\ [][NextProducer]_vars

\* ===================================================================== claims
\* The connect call made by the application
AppPromise == promises[1]

ValidConfig(args) == args.host # Undefined /\ args.brokerHost # Undefined

\* C1: a connect promise is resolved only after a control-plane response was
\* handled for it (which marks the connection active and sets connectionId and
\* accessToken) and after broker.connect returned for it; never before both.
C1_ResolvesAfterAuthAndTransport ==
    \A p \in DOMAIN promises :
       promises[p].state = "resolved" =>
          /\ promises[p].authSeen
          /\ promises[p].transportOpened
          /\ log.handshakes > 0
          /\ log.transports > 0
          /\ this.brokerConnection # Null

C1_Witness ==
    \E p \in DOMAIN promises : promises[p].state = "resolved"

\* C2: as long as the control plane has sent nothing, a connect call with a
\* valid configuration is never resolved, and once its timeoutMs timer has
\* fired it is rejected with the connection-timeout error, whatever the
\* reconnect flag, maxReconnect and the socket closes in between.
C2_TimeoutWithoutResponse ==
    \A p \in DOMAIN promises :
       (ValidConfig(promises[p].args) /\ server.sent = 0) =>
          /\ promises[p].state # "resolved"
          /\ promises[p].timer = "fired" =>
                /\ promises[p].state = "rejected"
                /\ promises[p].error = "ConnectionTimeout"

C2_Witness ==
    /\ Len(promises) > 0
    /\ server.sent = 0
    /\ log.closes > 0
    /\ AppPromise.args.reconnect
    /\ AppPromise.args.maxReconnect = DefaultMaxReconnect
    /\ AppPromise.timer = "fired"
    /\ AppPromise.error = "ConnectionTimeout"

\* The range of the attempt counter
C3_CounterRange ==
    /\ this.reconnectAttempts >= 0
    /\ this.reconnectAttempts <= this.maxReconnect
    /\ this.maxReconnect <= MaxReconnectCap
    /\ app.connected =>
          /\ this.maxReconnect <= AppPromise.args.maxReconnect
          /\ this.reconnectAttempts <= AppPromise.args.maxReconnect

\* C3: the attempt counter is always between 0 and min(maxReconnect, 9), and
\* it is 0 right after every control-plane authentication response.
C3_CounterBounded ==
    /\ [](C3_CounterRange)
    /\ [][log'.handshakes > log.handshakes => this'.reconnectAttempts = 0]_vars

C3_Witness ==
    /\ log.handshakes > 0
    /\ this.reconnectAttempts > 0
    /\ this.maxReconnect = MaxReconnectCap

\* A policy under which _close never retries, and the cleaned-up state
NoRetry(args) == ~args.reconnect \/ args.maxReconnect = 0

CleanedUp ==
    /\ client.dataListeners = <<>>
    /\ ~client.errorListener
    /\ ~client.closeListener
    /\ client.destroyed
    /\ client.state = "idle"
    /\ this.accessTokenTimeout = NoTimer
    /\ refreshTimers = {}
    /\ this.accessToken = Null
    /\ this.connectionId = Null
    /\ ~this.isConnectionActive

\* C4: with reconnect disabled or maxReconnect = 0, a socket close leaves the
\* connection cleaned up (no socket listeners, socket destroyed, refresh timer
\* cancelled, accessToken and connectionId cleared, inactive), schedules no
\* reconnect timer and no further connect attempt is made.
C4_NoRetryCleansUp ==
    (app.connected /\ NoRetry(AppPromise.args) /\ log.closes > 0) =>
       /\ CleanedUp
       /\ reconnectTimers = 0
       /\ log.connectAttempts = 1
       /\ Len(promises) = 1

C4_Witness ==
    /\ app.connected
    /\ ~app.closed
    /\ AppPromise.args.reconnect
    /\ AppPromise.args.maxReconnect = 0
    /\ log.closes > 0
    /\ log.handshakes > 0
    /\ timersMade > 0

\* A reconnect attempt is scheduled or under way
AttemptPending ==
    \/ reconnectTimers > 0
    \/ client.state \in {"connecting", "open"}

\* C5: after a socket close with reconnect enabled, a failed reconnect attempt
\* is followed by another attempt while the counter is below maxReconnect, and
\* exhausted attempts end in the cleaned-up state: the connection is active,
\* or cleaned up, or a further attempt is scheduled or under way; it is never
\* left inactive with nothing pending.
C5_RetriesUntilActiveOrCleanedUp ==
    (app.connected /\ ~app.closed /\ log.closes > 0) =>
       \/ this.isConnectionActive
       \/ CleanedUp /\ reconnectTimers = 0
       \/ AttemptPending

\* Two connect calls have the same parameters
SameParameters(a, b) ==
    /\ a.host = b.host
    /\ a.port = b.port
    /\ a.brokerHost = b.brokerHost
    /\ a.brokerPort = b.brokerPort
    /\ a.username = b.username
    /\ a.connectionToken = b.connectionToken
    /\ a.reconnect = b.reconnect
    /\ CapMaxReconnect(a.maxReconnect) = CapMaxReconnect(b.maxReconnect)
    /\ a.reconnectIntervalMs = b.reconnectIntervalMs
    /\ a.timeoutMs = b.timeoutMs

\* C6: the connect call made by _close's timer has the parameters of the
\* original connect call: the same host, port, brokerHost, brokerPort,
\* username, connection token and reconnect policy.
C6_ReconnectWithSameParameters ==
    \A p \in DOMAIN promises :
       promises[p].origin = "reconnect" =>
          SameParameters(promises[p].args, AppPromise.args)

\* What close() must leave; timer is the handle accessTokenTimeout held
Closed(r, timer) ==
    /\ ~r.this.isConnectionActive
    /\ r.this.accessToken = Null
    /\ r.this.connectionId = Null
    /\ r.this.accessTokenTimeout = NoTimer
    /\ timer \notin r.refreshTimers
    /\ r.this.reconnectAttempts = 0
    /\ r.client.dataListeners = <<>>
    /\ ~r.client.errorListener
    /\ ~r.client.closeListener
    /\ r.client.destroyed
    /\ r.client.state = "idle"

\* C7: from every reachable state, close() leaves the connection inactive with
\* accessToken and connectionId null, the refresh timer cancelled, the attempt
\* counter 0 and no data/error/close listener on the socket; a second close()
\* leaves exactly the state the first one left.
C7_CloseIdempotent ==
    LET once == close(this, client, refreshTimers)
        twice == close(once.this, once.client, once.refreshTimers)
    IN  /\ Closed(once, this.accessTokenTimeout)
        /\ twice = once
        /\ app.closed =>
              /\ Closed([this |-> this, client |-> client,
                         refreshTimers |-> refreshTimers], NoTimer)
              /\ once = [this |-> this, client |-> client,
                         refreshTimers |-> refreshTimers]

C7_Witness ==
    /\ app.closed
    /\ log.handshakes > 0
    /\ log.closes > 0
    /\ Len(promises) > 1
    /\ timersMade > 0

\* C8: a call of factory, station, producer or consumer on an inactive
\* connection fails at once with the connection-inactive error, sends no HTTP
\* request, creates no session and changes nothing of the connection.
C8_InactiveCallsFail ==
    [][(Len(calls') > Len(calls) /\ ~this.isConnectionActive) =>
          /\ calls'[Len(calls')].state = "rejected"
          /\ calls'[Len(calls')].error = "ConnectionInactive"
          /\ log' = log
          /\ this' = this
          /\ client' = client
          /\ promises' = promises
          /\ <<reconnectTimers', refreshTimers', server'>> =
                <<reconnectTimers, refreshTimers, server>>]_vars

C8_Witness ==
    /\ log.handshakes > 0
    /\ log.closes > 0
    /\ \E i \in DOMAIN calls :
          /\ calls[i].op = "consumer"
          /\ calls[i].error = "ConnectionInactive"

ErrorListeners ==
    {clog.registeredAt[i].f : i \in {j \in DOMAIN clog.registeredAt :
        /\ clog.registeredAt[j].event = "error"
        /\ clog.registeredAt[j].state = "subscribing"}}

\* The number of 'error' events listener f was called with
ErrorCalls(f) == Cardinality({i \in DOMAIN clog.errorsTo : f \in clog.errorsTo[i]})

\* C12: when opening the pull subscription fails, the session exists, no pull
\* is issued and no pull timer is set, the catch handler throws nothing, and
\* every listener registered for 'error' on the session is called exactly once.
C12_FailureIsOneErrorEvent ==
    (psub.state = "failed" /\ consumer.destroy = "none") =>
       /\ intervals = {}
       /\ psub.requests = <<>>
       /\ ErrorListeners # {} => clog.unhandled = 0
       /\ \A f \in ErrorListeners : ErrorCalls(f) = 1

\* C13: every removal request a producer's destroy() sends names the
\* producer's own lower-cased name and its station, and destroy() leaves the
\* producer's fields as the constructor set them.
C13_DestroyNamesProducer ==
    /\ producer = ProducerNew(plog.args)
    /\ \A i \in DOMAIN plog.http :
          /\ plog.http[i].request.name = ToLowerCase(plog.args.producerName)
          /\ plog.http[i].request.station_name
                = ToLowerCase(plog.args.stationName)

\* C14: whenever an access token is held (accessToken is not null) the
\* connection is active.
C14_TokenOnlyWhileActive ==
    this.accessToken # Null => this.isConnectionActive

\* C15: a refresh request is written only by a refresh timer that fires
\* while the connection is active, and none is written once close() has been
\* called or _close has cleaned up.
C15_RefreshOnlyWhileActive ==
    [][/\ log'.refreshWrites # log.refreshWrites =>
            /\ this.isConnectionActive
            /\ log'.refreshWrites = log.refreshWrites + 1
            /\ \E id \in refreshTimers : refreshTimers' = refreshTimers \ {id}
       /\ (app.closed \/ log.cleanups > 0) =>
            log'.refreshWrites = log.refreshWrites]_vars

C15_Witness ==
    /\ log.refreshWrites > 0
    /\ app.closed \/ log.cleanups > 0
    /\ ~this.isConnectionActive

\* The connect calls whose promise is neither resolved nor rejected
InProgress == {i \in DOMAIN promises : promises[i].state = "pending"}

\* C16: at most one connect call is in progress at any time, and no connect
\* call (the application's or a reconnect timer's) starts while another one is
\* still in progress.
C16_ConnectsSerialized ==
    [][/\ Cardinality(InProgress) <= 1
       /\ Len(promises') > Len(promises) => InProgress = {}]_vars

C18_NoConnectAfterClose ==
    [][app.closed =>
          /\ ~this'.isConnectionActive
          /\ Len(promises') = Len(promises)
          /\ log'.connectAttempts = log.connectAttempts]_vars

\* C19: the streaming transport is opened at most once per authentication
\* response (a refresh response opens none), and the socket has at most one
\* 'data' listener, so that a message is handled once.
C19_OneTransportPerHandshake ==
    /\ log.transports <= log.handshakes
    /\ Len(client.dataListeners) <= 1

\* C20: at most one refresh timer is pending, and a pending refresh
\* timer is the one accessTokenTimeout refers to.
C20_OneRefreshTimer ==
    /\ Cardinality(refreshTimers) <= 1
    /\ refreshTimers \subseteq {this.accessTokenTimeout}
    /\ NoTimer \notin refreshTimers

C20_Witness ==
    /\ timersMade >= 2
    /\ refreshTimers = {this.accessTokenTimeout}
    /\ log.refreshWrites > 0

====
